---- MODULE Spec2Model ----
(***************************************************************************)
(* SAHAYAK AI: the React single-page web app (App.jsx, the axios API       *)
(* client, the SOS page, the CRP dashboard), the Chrome extension (popup,  *)
(* background service worker, content script) and the document store of   *)
(* the FastAPI backend.                                                    *)
(*                                                                         *)
(* The web app, the extension popup, the extension's background worker    *)
(* with its content script, and the backend are separate programs that     *)
(* share nothing but the REST API, so a behaviour of the model is a run of *)
(* one of them: `program` is chosen by Init and never changes, and every   *)
(* action belongs to one program.                                          *)
(***************************************************************************)
EXTENDS Integers, Sequences, FiniteSets, TLC

VARIABLES
    program,        \* "web" | "popup" | "page" | "backend": the program of this run
    last,           \* the handler that ran last and what it was given
    \* ---- web app: browser state
    lsToken,        \* localStorage 'token'
    lsUser,         \* localStorage 'user' (JSON text)
    location,       \* window.location path
    inflight,       \* HTTP requests of the web API client awaiting a response
    \* ---- web app: React state of App
    isAuthenticated,
    user,
    appLoading,
    screen,         \* the element App's <Routes> renders
    \* ---- web app: React state of the mounted page
    login,          \* Login: [loading, error]
    register,       \* Register: [step, loading, error]
    sos,            \* SOSPage: [input, loading, result, error]
    crp,            \* CRPDashboard: [loading, data, timeRange]
    history,        \* History: [loading, sosRequests, selectedSOS, clicked]
    records,        \* backend: age in days of each persisted Request record
    \* ---- extension
    storage,        \* chrome.storage.local: [authToken]
    popup,          \* popup.js: module state and the DOM it drives
    popupNet,       \* fetches of the popup awaiting a response
    bg,             \* background worker: context-menu fetches awaiting a response
    page,           \* content script: the page's overlay and what it shows
    \* ---- backend store
    requests,       \* Request records: id -> status
    solutions,      \* SharedSolution records: id -> vote tally
    votes           \* vote handlers in progress: solution -> tally seen -> how many

webVars == <<lsToken, lsUser, location, inflight, isAuthenticated, user,
             appLoading, screen, login, register, sos, crp, history, records>>
extVars == <<storage, popup, popupNet, bg, page>>
backendVars == <<requests, solutions, votes>>
vars == <<program, last, webVars, extVars, backendVars>>

----------------------------------------------------------------------------
(* Bounds of the model *)

\* requests one client may have awaiting a response at a time
MaxInflight == 1
\* detail requests the History page may have awaiting a response at a time
MaxDetails == 2

----------------------------------------------------------------------------
(* JavaScript values *)

Null == "<null>"                \* null
Undefined == "<undefined>"      \* undefined, and an absent property
NoItem == Null                  \* localStorage.getItem of an absent key

Tokens == {"jwt1", "jwt2"}

\* role strings a user record may carry; Undefined is a record without role
RoleValues == {"teacher", "crp", "diet", "CRP", "Diet", "admin", Null, Undefined}
\* a user value: a user object, or null
NullUser == [null |-> TRUE]
UserObjects == [role : RoleValues]
UserValues == UserObjects \cup {NullUser}

\* String.prototype.toLowerCase on the strings of the model
ToLowerCase(s) ==
    CASE s = "CRP" -> "crp"
      [] s = "Diet" -> "diet"
      [] OTHER -> s

\* JSON.stringify of a user value: a property whose value is undefined is
\* dropped, a null one is written as null.
JSONStringify(v) ==
    IF v = NullUser THEN "null"
    ELSE IF v.role = Undefined THEN "{}"
    ELSE IF v.role = Null THEN "{\"role\":null}"
    ELSE "{\"role\":\"" \o v.role \o "\"}"

SyntaxError == [error |-> "SyntaxError"]

\* JSON.parse: the value whose JSON text this is; any other text throws
JSONParse(text) ==
    IF \E v \in UserValues : JSONStringify(v) = text
    THEN CHOOSE v \in UserValues : JSONStringify(v) = text
    ELSE SyntaxError

\* JavaScript truthiness of a string-or-null value
Truthy(v) == v # Null /\ v # Undefined /\ v # ""

\* String.prototype.trim on the input texts of the model
Trim(s) == IF s = " " THEN "" ELSE s

\* what a user can leave in a required text field: nothing, blanks, a text
InputTexts == {"", " ", "Students don't understand fractions"}

----------------------------------------------------------------------------
(* Web app: the API client (client.js) *)

NoHeader == Undefined

\* mutant: the header is set without the test of the token
RequestInterceptor_Always(config, storedToken) ==
    [config EXCEPT !.auth = "Bearer " \o storedToken]

\* api.interceptors.request: reads localStorage 'token' (storedToken) when the
\* request is sent and sets the Authorization header if it is truthy
RequestInterceptor(config, storedToken) ==
    IF Truthy(storedToken)
    THEN [config EXCEPT !.auth = "Bearer " \o storedToken]
    ELSE config

\* axios.create + api.get / api.post: the config before the interceptors run
Config(call, method, url, params) ==
    [call |-> call, method |-> method, url |-> url, params |-> params,
     auth |-> NoHeader]

\* a request awaiting its response; `live`: the component that awaits it is
\* still mounted
Pending(config) == [call |-> config.call, params |-> config.params, live |-> TRUE]

NoParams == [none |-> TRUE]
authAPI_register == Config("authAPI.register", "POST", "/auth/register", NoParams)
authAPI_login == Config("authAPI.login", "POST", "/auth/login", NoParams)
sosAPI_quick == Config("sosAPI.quick", "POST", "/sos/quick", NoParams)
sosAPI_getHistory == Config("sosAPI.getHistory", "GET", "/sos/", NoParams)
sosAPI_getById(id) == Config("sosAPI.getById", "GET", "/sos/" \o id, [id |-> id])
dashboardAPI_getTeacher ==
    Config("dashboardAPI.getTeacher", "GET", "/dashboard/teacher", NoParams)
\* mutant: the CRP dashboard is fetched with a POST
dashboardAPI_getCRP_Post(days) ==
    Config("dashboardAPI.getCRP", "POST", "/dashboard/crp", [days |-> days])

dashboardAPI_getCRP(days) ==
    Config("dashboardAPI.getCRP", "GET", "/dashboard/crp", [days |-> days])

\* knowledgeAPI of client.js, as TeacherDashboard.jsx calls it
knowledgeAPI_getMySolutions ==
    Config("knowledgeAPI.getMySolutions", "GET", "/knowledge/my-solutions", NoParams)
knowledgeAPI_getMentorInsights ==
    Config("knowledgeAPI.getMentorInsights", "GET", "/knowledge/mentor/insights",
           NoParams)

\* response.user of a 200 answer of /auth/login or /auth/register: a user
\* object, or null (the client does not test it)
AuthUsers == UserValues

\* HTTP outcomes of a request: a response with a status, or a network error
\* (axios: error.response is undefined)
HttpResponse(status) == [response |-> TRUE, status |-> status]
NetworkError == [response |-> FALSE]
Outcomes == {HttpResponse(st) : st \in {200, 401, 500}} \cup {NetworkError}
Ok(out) == out.response /\ out.status = 200

\* mutant: only the token is removed
ResponseInterceptor_KeepsUser(out, token, usr) ==
    IF out.response /\ out.status = 401
    THEN [token |-> NoItem, user |-> usr, href |-> "/login"]
    ELSE [token |-> token, user |-> usr, href |-> Null]

\* api.interceptors.response, error branch: on 401 both items are removed and
\* window.location.href is set to /login.  The value is what localStorage
\* holds afterwards and where the browser is sent (Null: nowhere).
ResponseInterceptor(out, token, usr) ==
    IF out.response /\ out.status = 401
    THEN [token |-> NoItem, user |-> NoItem, href |-> "/login"]
    ELSE [token |-> token, user |-> usr, href |-> Null]

----------------------------------------------------------------------------
(* Web app: App.jsx *)

Paths == {"/", "/login", "/register", "/sos", "/dashboard", "/dashboard/legacy",
          "/history", "/no-such-page"}

\* mutant: the role is compared as written
SmartDashboard_CaseSensitive(usr) ==
    LET role == IF usr = NullUser THEN Undefined ELSE usr.role
    IN  CASE role = "crp" -> "CRPDashboard"
          [] role = "diet" -> "DIETDashboard"
          [] OTHER -> "TeacherDashboard"

\* mutant: the CRP dashboard is the default case of the switch
SmartDashboard_DefaultCRP(usr) ==
    LET role == IF usr = NullUser THEN Undefined
                ELSE IF usr.role \in {Null, Undefined} THEN Undefined
                ELSE ToLowerCase(usr.role)
    IN  CASE role = "teacher" -> "TeacherDashboard"
          [] role = "diet" -> "DIETDashboard"
          [] OTHER -> "CRPDashboard"

\* SmartDashboard: user?.role?.toLowerCase() and the switch over it
SmartDashboard(usr) ==
    LET role == IF usr = NullUser THEN Undefined
                ELSE IF usr.role \in {Null, Undefined} THEN Undefined
                ELSE ToLowerCase(usr.role)
    IN  CASE role = "crp" -> "CRPDashboard"
          [] role = "diet" -> "DIETDashboard"
          [] OTHER -> "TeacherDashboard"

Page(name) == [kind |-> "page", page |-> name]
Navigate(to) == [kind |-> "navigate", to |-> to]

\* mutant: /history is rendered without the test of isAuthenticated
RouteElement_HistoryOpen(path, auth, usr) ==
    CASE path = "/" -> Page("Landing")
      [] path = "/login" -> IF auth THEN Navigate("/dashboard") ELSE Page("Login")
      [] path = "/register" ->
            IF auth THEN Navigate("/dashboard") ELSE Page("Register")
      [] path = "/sos" -> Page("SOSPage")
      [] path = "/dashboard" ->
            IF auth THEN Page(SmartDashboard(usr)) ELSE Navigate("/login")
      [] path = "/dashboard/legacy" ->
            IF auth THEN Page("Dashboard") ELSE Navigate("/login")
      [] path = "/history" -> Page("History")
      [] OTHER -> Navigate("/")

\* mutant: /login renders its form in every auth state
RouteElement_LoginOpen(path, auth, usr) ==
    CASE path = "/" -> Page("Landing")
      [] path = "/login" -> Page("Login")
      [] path = "/register" ->
            IF auth THEN Navigate("/dashboard") ELSE Page("Register")
      [] path = "/sos" -> Page("SOSPage")
      [] path = "/dashboard" ->
            IF auth THEN Page(SmartDashboard(usr)) ELSE Navigate("/login")
      [] path = "/dashboard/legacy" ->
            IF auth THEN Page("Dashboard") ELSE Navigate("/login")
      [] path = "/history" ->
            IF auth THEN Page("History") ELSE Navigate("/login")
      [] OTHER -> Navigate("/")

\* the element of the <Route> that matches path
RouteElement(path, auth, usr) ==
    CASE path = "/" -> Page("Landing")
      [] path = "/login" -> IF auth THEN Navigate("/dashboard") ELSE Page("Login")
      [] path = "/register" ->
            IF auth THEN Navigate("/dashboard") ELSE Page("Register")
      [] path = "/sos" -> Page("SOSPage")
      [] path = "/dashboard" ->
            IF auth THEN Page(SmartDashboard(usr)) ELSE Navigate("/login")
      [] path = "/dashboard/legacy" ->
            IF auth THEN Page("Dashboard") ELSE Navigate("/login")
      [] path = "/history" ->
            IF auth THEN Page("History") ELSE Navigate("/login")
      [] OTHER -> Navigate("/")

\* rendering <Routes> at path: a <Navigate replace> changes the location and the
\* routes are matched again, until a page is rendered
RECURSIVE Render(_, _, _)
Render(path, auth, usr) ==
    LET el == RouteElement(path, auth, usr)
    IN  IF el.kind = "page" THEN [location |-> path, screen |-> el.page]
        ELSE Render(el.to, auth, usr)

\* App's useEffect on mount: the state after it ran
AppMount(token, savedUser) ==
    IF Truthy(token) /\ Truthy(savedUser)
    THEN LET parsed == JSONParse(savedUser)
         IN  IF parsed = SyntaxError
             THEN [isAuthenticated |-> FALSE, user |-> NullUser, loading |-> TRUE,
                   crashed |-> TRUE]
             ELSE [isAuthenticated |-> TRUE, user |-> parsed, loading |-> FALSE,
                   crashed |-> FALSE]
    ELSE [isAuthenticated |-> FALSE, user |-> NullUser, loading |-> FALSE,
          crashed |-> FALSE]

\* handleLogin: what localStorage holds afterwards
handleLogin_storage(userData, token) ==
    [token |-> token, user |-> JSONStringify(userData)]

\* handleLogout: what localStorage holds afterwards
handleLogout_storage == [token |-> NoItem, user |-> NoItem]

----------------------------------------------------------------------------
(* Web app: state of the pages *)

LoginInitial == [loading |-> FALSE, error |-> ""]
\* Register: useState(1) / useState(false) / useState('')
RegisterInitial ==
    [step |-> 1, loading |-> FALSE, error |-> "", password |-> "",
     confirmPassword |-> ""]
\* SOSPage: useState('') / useState(false) / useState(null) / useState('')
NoResult == [success |-> FALSE, none |-> TRUE]
SOSInitial == [input |-> "", loading |-> FALSE, result |-> NoResult, error |-> ""]
\* CRPDashboard: useState(true) / useState(null) / useState(7)
NoData == [none |-> TRUE]
CRPInitial == [loading |-> TRUE, data |-> NoData, timeRange |-> 7]
CRPUnmounted == [loading |-> FALSE, data |-> NoData, timeRange |-> 7]

\* History: no entry selected (selectedSOS is null)
NullSOS == [null |-> TRUE]
HistoryInitial ==
    [loading |-> TRUE, sosRequests |-> {}, selectedSOS |-> NullSOS, clicked |-> ""]
HistoryUnmounted == [HistoryInitial EXCEPT !.loading = FALSE]

TimeRanges == {7, 14, 30}

\* the requests a page sends from its mount effect
MountRequests(scr) ==
    CASE scr = "CRPDashboard" -> {dashboardAPI_getCRP(CRPInitial.timeRange)}
      [] scr = "TeacherDashboard" ->
            {dashboardAPI_getTeacher, knowledgeAPI_getMySolutions,
             knowledgeAPI_getMentorInsights}
      [] scr = "Dashboard" -> {dashboardAPI_getTeacher}
      [] scr = "History" -> {sosAPI_getHistory}
      [] OTHER -> {}

\* what the mount effect awaits: one response, or for TeacherDashboard the
\* Promise.all of its three requests
MountAwaits(scr) ==
    IF scr = "TeacherDashboard"
    THEN {[call |-> "TeacherDashboard.loadDashboard", params |-> NoParams,
           live |-> TRUE]}
    ELSE {Pending(c) : c \in MountRequests(scr)}

\* requests whose component was unmounted: their handlers no longer show
Orphaned(reqs) == {[r EXCEPT !.live = FALSE] : r \in reqs}

\* err.response?.data?.detail (SOS page) and err.response?.data?.message
\* (Login) of an error response
Details == {"Internal Server Error", Undefined}

\* a || b on strings
OrElse(a, b) == IF Truthy(a) THEN a ELSE b

\* `last`: the handler that ran, its argument ("" if none), the HTTP outcome it
\* was given and the request configs it put on the wire
NoOutcome == [none |-> TRUE]
Event(op, arg, out, sentConfigs) ==
    [op |-> op, arg |-> arg, outcome |-> out, sent |-> sentConfigs]

----------------------------------------------------------------------------
(* Backend aggregation behind GET /dashboard/crp *)

\* ages in days of the persisted Request records of the cluster
RecordSets == {{}, {3, 10}, {3, 10, 20, 40}}

\* total_sos of the CRP summary for a window of `days` days
CountRequests(recs, days) == Cardinality({age \in recs : age <= days})

\* teachers of the cluster in the largest data set of the model
MaxTeachers == 12

\* the contributions of the cluster's teachers: none, three, MaxTeachers
TeacherSets ==
    {[k \in 1..n |-> [teacher_id |-> k, solutions_shared |-> (k * 3) % 4,
                      helpful_votes |-> (k * 5) % 7]] : n \in {0, 3, MaxTeachers}}

\* weights of shares and of votes in the score
ScoreWeights == {[share |-> 1, vote |-> 1], [share |-> 3, vote |-> 2]}
Score(teacher, w) ==
    w.share * teacher.solutions_shared + w.vote * teacher.helpful_votes

ByScore(a, b) == a.score > b.score

\* teacher_leaderboard: every teacher with the score, highest score first
Leaderboard(teachers, w) ==
    SortSeq([k \in 1..Len(teachers) |->
                [teacher_id |-> teachers[k].teacher_id,
                 solutions_shared |-> teachers[k].solutions_shared,
                 helpful_votes |-> teachers[k].helpful_votes,
                 score |-> Score(teachers[k], w)]],
            ByScore)

CRPData(recs, days, teachers, w) ==
    [days |-> days, total_sos |-> CountRequests(recs, days),
     teacher_leaderboard |-> Leaderboard(teachers, w)]

----------------------------------------------------------------------------
(* Web app: actions *)

\* <Routes> is rendered at path with the given App state; `reqs` are the
\* requests still awaited.  A page that was not on screen is mounted: its
\* state is initial and its mount effect sends its requests.
Display(path, auth, usr, token, reqs, fresh) ==
    LET r == Render(path, auth, usr)
        mounted == fresh \/ r.screen # screen
        mountReqs == MountAwaits(r.screen)
    IN  /\ location' = r.location
        /\ screen' = r.screen
        /\ login' = IF mounted THEN LoginInitial ELSE login
        /\ register' = IF mounted THEN RegisterInitial ELSE register
        /\ sos' = IF mounted THEN SOSInitial ELSE sos
        /\ crp' = IF ~mounted THEN crp
                  ELSE IF r.screen = "CRPDashboard" THEN CRPInitial
                  ELSE CRPUnmounted
        /\ history' = IF ~mounted THEN history
                      ELSE IF r.screen = "History" THEN HistoryInitial
                      ELSE HistoryUnmounted
        /\ inflight' = IF mounted THEN Orphaned(reqs) \cup mountReqs ELSE reqs
        /\ Cardinality(inflight') <= MaxInflight

\* the configs the mount effects of that rendering put on the wire
MountSent(path, auth, usr, token, fresh) ==
    LET r == Render(path, auth, usr)
    IN  IF fresh \/ r.screen # screen
        THEN {RequestInterceptor(c, token) : c \in MountRequests(r.screen)}
        ELSE {}

\* a document load at path (URL typed, refresh, window.location.href = ...):
\* pending requests are aborted, App is constructed and its mount effect runs
DocumentLoad(path, token, savedUser) ==
    LET app == AppMount(token, savedUser)
    IN  /\ isAuthenticated' = app.isAuthenticated
        /\ user' = app.user
        /\ appLoading' = app.loading
        /\ IF app.crashed
           THEN /\ location' = path
                /\ screen' = "Crashed"
                /\ login' = LoginInitial
                /\ register' = RegisterInitial
                /\ sos' = SOSInitial
                /\ crp' = CRPUnmounted
                /\ history' = HistoryUnmounted
                /\ inflight' = {}
           ELSE Display(path, app.isAuthenticated, app.user, token, {}, TRUE)

WebLoad(path) ==
    /\ program = "web"
    /\ DocumentLoad(path, lsToken, lsUser)
    /\ last' = LET app == AppMount(lsToken, lsUser)
                IN  Event("load", path, NoOutcome,
                          IF app.crashed THEN {}
                          ELSE MountSent(path, app.isAuthenticated, app.user,
                                         lsToken, TRUE))
    /\ UNCHANGED <<program, lsToken, lsUser, records, extVars, backendVars>>

\* <Link>, navigate(), back/forward: the location changes inside the document
WebNavigate(path) ==
    /\ program = "web"
    /\ screen # "Crashed"
    /\ Render(path, isAuthenticated, user).screen # screen
    /\ Display(path, isAuthenticated, user, lsToken, inflight, FALSE)
    /\ last' = Event("navigate", path, NoOutcome,
                      MountSent(path, isAuthenticated, user, lsToken, FALSE))
    /\ UNCHANGED <<program, lsToken, lsUser, isAuthenticated, user, appLoading,
                   records, extVars, backendVars>>

\* DashboardLayout's logout button: handleLogout
Logout ==
    /\ program = "web"
    /\ screen \in {"TeacherDashboard", "CRPDashboard", "DIETDashboard", "Dashboard",
                   "History"}
    /\ lsToken' = handleLogout_storage.token
    /\ lsUser' = handleLogout_storage.user
    /\ user' = NullUser
    /\ isAuthenticated' = FALSE
    /\ Display(location, FALSE, NullUser, handleLogout_storage.token, inflight, FALSE)
    /\ last' = Event("handleLogout", "", NoOutcome,
                      MountSent(location, FALSE, NullUser,
                                handleLogout_storage.token, FALSE))
    /\ UNCHANGED <<program, appLoading, records, extVars, backendVars>>

\* Login.handleSubmit (the submit button is disabled while loading)
LoginSubmit ==
    /\ program = "web"
    /\ screen = "Login"
    /\ ~login.loading
    /\ Cardinality(inflight) < MaxInflight
    /\ login' = [loading |-> TRUE, error |-> ""]
    /\ inflight' = inflight \cup {Pending(authAPI_login)}
    /\ last' = Event("Login.handleSubmit", "", NoOutcome,
                      {RequestInterceptor(authAPI_login, lsToken)})
    /\ UNCHANGED <<program, lsToken, lsUser, location, isAuthenticated, user,
                   appLoading, screen, register, sos, crp, records, history, extVars,
                   backendVars>>

\* a response with status 401, to any request: the response interceptor clears
\* localStorage and sets window.location.href, which loads the document anew
Response401(r) ==
    /\ program = "web"
    /\ r \in inflight
    /\ LET out == HttpResponse(401)
           after == ResponseInterceptor(out, lsToken, lsUser)
       IN  /\ after.href # Null
           /\ lsToken' = after.token
           /\ lsUser' = after.user
           /\ DocumentLoad(after.href, after.token, after.user)
           /\ last' = Event(IF r.live THEN "response" ELSE "response.orphan",
                             r.call, out,
                             MountSent(after.href, FALSE, NullUser, after.token, TRUE))
    /\ UNCHANGED <<program, records, extVars, backendVars>>

\* any other outcome of a request whose component is gone, or whose page
\* state is not part of the model: the awaiting code has nothing to show
ResponseUnseen(r, out) ==
    /\ program = "web"
    /\ r \in inflight
    /\ out \in Outcomes
    /\ ResponseInterceptor(out, lsToken, lsUser).href = Null
    /\ ~r.live \/ r.call \in {"TeacherDashboard.loadDashboard",
                             "dashboardAPI.getTeacher"}
    /\ inflight' = inflight \ {r}
    /\ last' = Event(IF r.live THEN "response" ELSE "response.orphan", r.call, out, {})
    /\ UNCHANGED <<program, lsToken, lsUser, location, isAuthenticated, user,
                   appLoading, screen, login, register, sos, crp, records, history, extVars,
                   backendVars>>

\* Login.handleSubmit after the await: onLogin(response.user,
\* response.access_token) and navigate('/dashboard'), or setError
LoginResponse(r, out) ==
    /\ program = "web"
    /\ r \in inflight /\ r.live /\ r.call = "authAPI.login"
    /\ out \in Outcomes
    /\ ResponseInterceptor(out, lsToken, lsUser).href = Null
    /\ IF Ok(out)
       THEN \E userData \in AuthUsers, token \in Tokens :
               LET kept == handleLogin_storage(userData, token)
               IN  /\ lsToken' = kept.token
                   /\ lsUser' = kept.user
                   /\ user' = userData
                   /\ isAuthenticated' = TRUE
                   /\ Display("/dashboard", TRUE, userData, kept.token,
                              inflight \ {r}, FALSE)
                   /\ last' = Event("Login.response", "", out,
                                     MountSent("/dashboard", TRUE, userData,
                                               kept.token, FALSE))
       ELSE /\ \E message \in (IF out.response THEN Details ELSE {Undefined}) :
                  login' = [loading |-> FALSE,
                            error |-> OrElse(message, "Invalid email or password")]
            /\ inflight' = inflight \ {r}
            /\ last' = Event("Login.response", "", out, {})
            /\ UNCHANGED <<lsToken, lsUser, user, isAuthenticated, location, screen,
                           register, sos, crp, history>>
    /\ UNCHANGED <<program, appLoading, records, extVars, backendVars>>

\* what a user can type in the password and confirmPassword fields
Passwords == {"", "pw1", "pw2"}

\* Register.handleChange on the password fields, which step 1 renders
RegisterEdit(field, value) ==
    /\ program = "web"
    /\ screen = "Register"
    /\ register.step = 1
    /\ value # register[field]
    /\ register' = [register EXCEPT ![field] = value]
    /\ last' = Event("Register.handleChange", field, NoOutcome, {})
    /\ UNCHANGED <<program, lsToken, lsUser, location, inflight, isAuthenticated,
                   user, appLoading, screen, login, sos, crp, records, history, extVars,
                   backendVars>>

\* handleSubmit without the comparison of step 1
Register_passwordsMatch_Always(formData) == TRUE

\* handleSubmit, step 1: formData.password !== formData.confirmPassword
Register_passwordsMatch(formData) == formData.password = formData.confirmPassword

\* Register.handleSubmit up to the await (the submit button is disabled while
\* loading).  In step 1 it compares the passwords and moves to step 2; in
\* step 2 it sends the registration.
RegisterSubmit ==
    /\ program = "web"
    /\ screen = "Register"
    /\ ~register.loading
    /\ IF register.step = 1
       THEN /\ register' = IF Register_passwordsMatch(register)
                           THEN [register EXCEPT !.step = 2, !.error = ""]
                           ELSE [register EXCEPT !.error = "Passwords do not match"]
            /\ inflight' = inflight
            /\ last' = Event("Register.handleSubmit", "step 1", NoOutcome, {})
       ELSE /\ Cardinality(inflight) < MaxInflight
            /\ register' = [register EXCEPT !.error = "", !.loading = TRUE]
            /\ inflight' = inflight \cup {Pending(authAPI_register)}
            /\ last' = Event("Register.handleSubmit", "step 2", NoOutcome,
                             {RequestInterceptor(authAPI_register, lsToken)})
    /\ UNCHANGED <<program, lsToken, lsUser, location, isAuthenticated, user,
                   appLoading, screen, login, sos, crp, records, history, extVars,
                   backendVars>>

\* Register: the Back button of step 2
RegisterBack ==
    /\ program = "web"
    /\ screen = "Register"
    /\ register.step = 2
    /\ register' = [register EXCEPT !.step = 1]
    /\ last' = Event("Register.setStep", "", NoOutcome, {})
    /\ UNCHANGED <<program, lsToken, lsUser, location, inflight, isAuthenticated,
                   user, appLoading, screen, login, sos, crp, records, history, extVars,
                   backendVars>>

\* Register.handleSubmit after the await: onLogin(response.user,
\* response.access_token) and navigate('/dashboard'), or setError
RegisterResponse(r, out) ==
    /\ program = "web"
    /\ r \in inflight /\ r.live /\ r.call = "authAPI.register"
    /\ out \in Outcomes
    /\ ResponseInterceptor(out, lsToken, lsUser).href = Null
    /\ IF Ok(out)
       THEN \E userData \in AuthUsers, token \in Tokens :
               LET kept == handleLogin_storage(userData, token)
               IN  /\ lsToken' = kept.token
                   /\ lsUser' = kept.user
                   /\ user' = userData
                   /\ isAuthenticated' = TRUE
                   /\ Display("/dashboard", TRUE, userData, kept.token,
                              inflight \ {r}, FALSE)
                   /\ last' = Event("Register.response", "", out,
                                     MountSent("/dashboard", TRUE, userData,
                                               kept.token, FALSE))
       ELSE /\ \E detail \in (IF out.response THEN Details ELSE {Undefined}) :
                  register' = [register EXCEPT
                                 !.loading = FALSE,
                                 !.error = OrElse(detail,
                                     "Registration failed. Please try again.")]
            /\ inflight' = inflight \ {r}
            /\ last' = Event("Register.response", "", out, {})
            /\ UNCHANGED <<lsToken, lsUser, user, isAuthenticated, location, screen,
                           login, sos, crp, history>>
    /\ UNCHANGED <<program, appLoading, records, extVars, backendVars>>

\* what POST /sos/quick answers with status 200: response.data
\* (title: response.playbook?.title)
SOSBodies ==
    [success : {TRUE}, title : {"Fraction strips", "", Undefined},
     detected_subject : {"Mathematics", Null}, error : {Undefined}]
    \cup [success : {FALSE}, title : {Undefined}, detected_subject : {Undefined},
          error : {"AI unavailable", Undefined}]
\* the backend's AI gateway behind POST /sos/quick: what became of its call to
\* the external model
AIOutcomes == {"ok", "unreachable", "timeout", "unconfigured"}

\* the static playbook the adapter substitutes when the model gave no answer
FallbackBody ==
    [success |-> TRUE, title |-> "Fallback playbook", detected_subject |-> Null,
     error |-> Undefined]

\* mutant: the adapter reports the failure of the external model
QuickSOSAnswers_Reported(ai) ==
    IF ai = "ok" THEN SOSBodies
    ELSE {[success |-> FALSE, title |-> Undefined, detected_subject |-> Undefined,
           error |-> "AI unavailable"]}

\* the 200 bodies of POST /sos/quick, by the outcome of the model call
QuickSOSAnswers(ai) == IF ai = "ok" THEN SOSBodies ELSE {FallbackBody}

\* the textarea's onChange and the speech recogniser's onresult: setInput
SosEdit(text) ==
    /\ program = "web"
    /\ screen = "SOSPage"
    /\ sos.result = NoResult
    /\ text # sos.input
    /\ sos' = [sos EXCEPT !.input = text]
    /\ last' = Event("SOSPage.setInput", text, NoOutcome, {})
    /\ UNCHANGED <<program, lsToken, lsUser, location, inflight, isAuthenticated,
                   user, appLoading, screen, login, register, crp, records, history, extVars,
                   backendVars>>

\* mutant: the input is tested untrimmed
SOSPage_validate_NoTrim(input) == input # ""

\* SOSPage.handleSubmit up to the await.  The submit button is disabled while
\* loading or while the trimmed input is empty, so a submit event with loading
\* true is not delivered; one with an empty input reaches the handler's own test.
SOSPage_validate(input) == Trim(input) # ""

SosSubmit ==
    /\ program = "web"
    /\ screen = "SOSPage"
    /\ sos.result = NoResult
    /\ ~sos.loading \/ ~SOSPage_validate(sos.input)
    /\ IF ~SOSPage_validate(sos.input)
       THEN /\ sos' = [sos EXCEPT !.error = "Please describe your classroom problem"]
            /\ inflight' = inflight
            /\ last' = Event("SOSPage.handleSubmit", "", NoOutcome, {})
       ELSE /\ Cardinality(inflight) < MaxInflight
            /\ sos' = [sos EXCEPT !.error = "", !.loading = TRUE, !.result = NoResult]
            /\ inflight' = inflight \cup {Pending(sosAPI_quick)}
            /\ last' = Event("SOSPage.handleSubmit", "", NoOutcome,
                             {RequestInterceptor(sosAPI_quick, lsToken)})
    /\ UNCHANGED <<program, lsToken, lsUser, location, isAuthenticated, user,
                   appLoading, screen, login, register, crp, records, history, extVars, backendVars>>

\* mutant: a failed request is sent again from the catch block
SosResponse_Retry(r, out) ==
    /\ program = "web"
    /\ r \in inflight /\ r.live /\ r.call = "sosAPI.quick"
    /\ out \in Outcomes
    /\ ResponseInterceptor(out, lsToken, lsUser).href = Null
    /\ IF Ok(out)
       THEN /\ \E ai \in AIOutcomes : \E response \in QuickSOSAnswers(ai) :
                  /\ sos' = IF response.success
                            THEN [sos EXCEPT !.result = response, !.loading = FALSE]
                            ELSE [sos EXCEPT
                                    !.error = OrElse(response.error,
                                                     "Failed to generate playbook"),
                                    !.loading = FALSE]
                  /\ last' = Event("SOSPage.response", ai, out, {})
            /\ inflight' = inflight \ {r}
       ELSE /\ sos' = sos
            /\ inflight' = inflight
            /\ last' = Event("SOSPage.response", "", out,
                             {RequestInterceptor(sosAPI_quick, lsToken)})
    /\ UNCHANGED <<program, lsToken, lsUser, location, isAuthenticated, user,
                   appLoading, screen, login, register, crp, records, history, extVars,
                   backendVars>>

\* SOSPage.handleSubmit after the await: try / catch / finally
SosResponse(r, out) ==
    /\ program = "web"
    /\ r \in inflight /\ r.live /\ r.call = "sosAPI.quick"
    /\ out \in Outcomes
    /\ ResponseInterceptor(out, lsToken, lsUser).href = Null
    /\ IF Ok(out)
       THEN \E ai \in AIOutcomes : \E response \in QuickSOSAnswers(ai) :
               /\ sos' = IF response.success
                         THEN [sos EXCEPT !.result = response, !.loading = FALSE]
                         ELSE [sos EXCEPT
                                 !.error = OrElse(response.error,
                                                  "Failed to generate playbook"),
                                 !.loading = FALSE]
               /\ last' = Event("SOSPage.response", ai, out, {})
       ELSE /\ \E detail \in (IF out.response THEN Details ELSE {Undefined}) :
                  sos' = [sos EXCEPT
                            !.error = OrElse(detail, "Failed to connect to server"),
                            !.loading = FALSE]
            /\ last' = Event("SOSPage.response", "", out, {})
    /\ inflight' = inflight \ {r}
    /\ UNCHANGED <<program, lsToken, lsUser, location, isAuthenticated, user,
                   appLoading, screen, login, register, crp, records, history, extVars, backendVars>>

\* SOSPage.resetForm: the result view's button for another request
SosReset ==
    /\ program = "web"
    /\ screen = "SOSPage"
    /\ sos.result # NoResult
    /\ sos' = [sos EXCEPT !.input = "", !.result = NoResult, !.error = ""]
    /\ last' = Event("SOSPage.resetForm", "", NoOutcome, {})
    /\ UNCHANGED <<program, lsToken, lsUser, location, inflight, isAuthenticated,
                   user, appLoading, screen, login, register, crp, records, history, extVars,
                   backendVars>>

\* SOSPage result view: result.playbook?.title || 'Teaching Rescue Playbook',
\* and the subject pill, rendered when result.detected_subject is truthy
SOSTitleShown == OrElse(sos.result.title, "Teaching Rescue Playbook")
NoPill == [none |-> TRUE]
SOSSubjectShown ==
    IF Truthy(sos.result.detected_subject)
    THEN [pill |-> sos.result.detected_subject] ELSE NoPill

\* SOSPage render: the error box is part of the form view, which is rendered
\* only while there is no result
SOSErrorShown == IF sos.result = NoResult THEN sos.error ELSE ""

\* CRPDashboard: the time-range select (rendered only when loading is false);
\* setTimeRange re-runs the effect, which calls loadDashboard
CrpSelect(days) ==
    /\ program = "web"
    /\ screen = "CRPDashboard"
    /\ ~crp.loading
    /\ days \in TimeRanges \ {crp.timeRange}
    /\ Cardinality(inflight) < MaxInflight
    /\ crp' = [crp EXCEPT !.timeRange = days, !.loading = TRUE]
    /\ inflight' = inflight \cup {Pending(dashboardAPI_getCRP(days))}
    /\ last' = Event("CRPDashboard.setTimeRange", "", NoOutcome,
                     {RequestInterceptor(dashboardAPI_getCRP(days), lsToken)})
    /\ UNCHANGED <<program, lsToken, lsUser, location, isAuthenticated, user,
                   appLoading, screen, login, register, sos, records, history, extVars, backendVars>>

\* CRPDashboard.loadDashboard after the await: try / catch / finally
CrpResponse(r, out) ==
    /\ program = "web"
    /\ r \in inflight /\ r.live /\ r.call = "dashboardAPI.getCRP"
    /\ out \in Outcomes
    /\ ResponseInterceptor(out, lsToken, lsUser).href = Null
    /\ IF Ok(out)
       THEN \E hasData \in BOOLEAN, teachers \in TeacherSets, w \in ScoreWeights :
               crp' = IF hasData
                      THEN [crp EXCEPT
                              !.data = CRPData(records, r.params.days, teachers, w),
                              !.loading = FALSE]
                      ELSE [crp EXCEPT !.loading = FALSE]
       ELSE crp' = [crp EXCEPT !.loading = FALSE]
    /\ inflight' = inflight \ {r}
    /\ last' = Event("CRPDashboard.response", "", out, {})
    /\ UNCHANGED <<program, lsToken, lsUser, location, isAuthenticated, user,
                   appLoading, screen, login, register, sos, records, history, extVars, backendVars>>

\* the ids of the SOS requests GET /sos/ can list for the user
SOSIds == {"sos1", "sos2"}
HistoryLists == {{}, SOSIds}

\* History.loadHistory after the await: try / catch / finally
HistoryResponse(r, out) ==
    /\ program = "web"
    /\ r \in inflight /\ r.live /\ r.call = "sosAPI.getHistory"
    /\ out \in Outcomes
    /\ ResponseInterceptor(out, lsToken, lsUser).href = Null
    /\ IF Ok(out)
       THEN \E data \in HistoryLists :
               history' = [history EXCEPT !.sosRequests = data, !.loading = FALSE]
       ELSE history' = [history EXCEPT !.loading = FALSE]
    /\ inflight' = inflight \ {r}
    /\ last' = Event("History.response", "", out, {})
    /\ UNCHANGED <<program, lsToken, lsUser, location, isAuthenticated, user,
                   appLoading, screen, login, register, sos, crp, records, extVars,
                   backendVars>>

\* detail requests of the History page awaiting a response
DetailsPending == {r \in inflight : r.live /\ r.call = "sosAPI.getById"}

\* a click on an entry of the list: loadSOSDetails(id) up to its await.  The
\* detail modal covers the list while an entry is selected.
HistoryClick(id) ==
    /\ program = "web"
    /\ screen = "History"
    /\ ~history.loading
    /\ id \in history.sosRequests
    /\ history.selectedSOS = NullSOS
    /\ Pending(sosAPI_getById(id)) \notin inflight
    /\ Cardinality(DetailsPending) < MaxDetails
    /\ history' = [history EXCEPT !.clicked = id]
    /\ inflight' = inflight \cup {Pending(sosAPI_getById(id))}
    /\ last' = Event("History.loadSOSDetails", id, NoOutcome,
                     {RequestInterceptor(sosAPI_getById(id), lsToken)})
    /\ UNCHANGED <<program, lsToken, lsUser, location, isAuthenticated, user,
                   appLoading, screen, login, register, sos, crp, records, extVars,
                   backendVars>>

\* loadSOSDetails after the await: selectedSOS afterwards
HistoryDetailShown(sel, r, out) ==
    IF Ok(out) THEN [id |-> r.params.id] ELSE sel

\* the response of a detail request arrives
HistoryDetailResponse(r, out) ==
    /\ program = "web"
    /\ r \in DetailsPending
    /\ out \in Outcomes
    /\ ResponseInterceptor(out, lsToken, lsUser).href = Null
    /\ history' = [history EXCEPT
                     !.selectedSOS = HistoryDetailShown(history.selectedSOS, r, out)]
    /\ inflight' = inflight \ {r}
    /\ last' = Event("History.detail", r.params.id, out, {})
    /\ UNCHANGED <<program, lsToken, lsUser, location, isAuthenticated, user,
                   appLoading, screen, login, register, sos, crp, records, extVars,
                   backendVars>>

\* a click on the detail modal's backdrop or its close button
HistoryCloseModal ==
    /\ program = "web"
    /\ screen = "History"
    /\ history.selectedSOS # NullSOS
    /\ history' = [history EXCEPT !.selectedSOS = NullSOS]
    /\ last' = Event("History.closeModal", "", NoOutcome, {})
    /\ UNCHANGED <<program, lsToken, lsUser, location, inflight, isAuthenticated,
                   user, appLoading, screen, login, register, sos, crp, records,
                   extVars, backendVars>>

\* CRPDashboard render: summary.total_sos of data?.summary or of the default
CRPTotalShown == IF crp.data = NoData THEN 0 ELSE crp.data.total_sos

\* rows of the leaderboard table
LeaderboardRows == 10

\* mutant: the table shows every entry it was given
CRPLeaderboardShown_NoSlice ==
    IF crp.data = NoData THEN <<>>
    ELSE [i \in 1..Len(crp.data.teacher_leaderboard) |->
             [rank |-> i, teacher |-> crp.data.teacher_leaderboard[i]]]

\* CRPDashboard render: data.teacher_leaderboard.slice(0, 10).map((teacher, i)
\* => ...), the rank being i + 1; no rows without data or with an empty list
CRPLeaderboardShown ==
    IF crp.data = NoData THEN <<>>
    ELSE LET board == crp.data.teacher_leaderboard
             shown == IF Len(board) < LeaderboardRows THEN Len(board)
                      ELSE LeaderboardRows
         IN  [i \in 1..shown |-> [rank |-> i, teacher |-> board[i]]]

----------------------------------------------------------------------------
(* Chrome extension: popup.js *)

\* a playbook of a response, and the absence of one (null / undefined)
NoPlaybook == [none |-> TRUE]
Titles == {"Fraction strips", "", Undefined}
Playbooks(problem) == [title : Titles, about : {problem}]

\* the body of a 200 response of POST /sos/quick as fetch sees it: JSON with or
\* without a playbook, or text that response.json() rejects
InvalidJSON == [invalid |-> TRUE]
QuickBodies(problem) ==
    {[playbook |-> pb] : pb \in Playbooks(problem) \cup {NoPlaybook}}
    \cup {InvalidJSON}

QuickCardProblem == "Class is too noisy"
DefaultTitle == "Teaching Rescue Playbook"

\* the popup before DOMContentLoaded: the module's initial state; what
\* popup.html shows by itself is not decided by popup.js
PopupClosed ==
    [phase |-> "closed", authToken |-> Null, currentPlaybook |-> NoPlaybook,
     section |-> "html", problemInput |-> "", toast |-> "",
     resultTitle |-> "", playbookContent |-> "", submitted |-> ""]

\* showSection: hides all five sections and shows the named one, if any
showSection(section) ==
    IF section \in {"auth", "sos", "loading", "result", "settings"}
    THEN section ELSE "none"

\* mutant: a refused token leads to the login form
checkAuth_section_AuthWhenRefused(hadToken, ok) ==
    IF hadToken /\ ~ok THEN showSection("auth") ELSE showSection("sos")

\* checkAuth: the section shown when it returns
checkAuth_section(hadToken, ok) == showSection("sos")

\* mutant: the title is shown as it was received
displayPlaybook_NoDefault(pop, playbook) ==
    IF playbook = NoPlaybook
    THEN [pop EXCEPT !.playbookContent = "<p>No playbook available</p>"]
    ELSE [pop EXCEPT !.resultTitle = playbook.title,
                     !.playbookContent = "<p>Playbook generated successfully!</p>"]

\* displayPlaybook: resultTitle.textContent and playbookContent.innerHTML
displayPlaybook(pop, playbook) ==
    IF playbook = NoPlaybook
    THEN [pop EXCEPT !.playbookContent = "<p>No playbook available</p>"]
    ELSE [pop EXCEPT !.resultTitle = OrElse(playbook.title, DefaultTitle),
                     !.playbookContent = "<p>Playbook generated successfully!</p>"]

\* mutant: the problem text is tested untrimmed
submitSOS_validate_NoTrim(text) == text # ""

\* submitSOS: the test of the trimmed problem text
submitSOS_validate(text) == Trim(text) # ""

\* mutant: only the email is tested
handleLogin_validate_EmailOnly(email, password) == Trim(email) # ""

\* handleLogin: the test of the trimmed email and the password
handleLogin_validate(email, password) == Trim(email) # "" /\ password # ""

\* what a user can leave in #emailInput and #passwordInput
LoginForms == {<<"", "pass123">>, <<" ", "pass123">>, <<"a@b.in", "">>,
               <<"a@b.in", "pass123">>}

Fetch(call, method, url, auth) ==
    [call |-> call, method |-> method, url |-> url, params |-> NoParams,
     auth |-> auth]

\* chrome.storage.local holds the token of an earlier login, or none
popupInit(stored) ==
    /\ storage = [authToken |-> stored]
    /\ popup = PopupClosed
    /\ popupNet = {}

popupOther == <<program, webVars, bg, page, backendVars>>

\* the popup is opened: DOMContentLoaded runs initElements, loadSettings and
\* checkAuth up to its fetch (or to its end when there is no token)
PopupOpen ==
    /\ program = "popup"
    /\ popup.phase = "closed"
    /\ IF Truthy(storage.authToken)
       THEN /\ popup' = [PopupClosed EXCEPT !.phase = "checkAuth",
                                           !.authToken = storage.authToken]
            /\ popupNet' = {[call |-> "auth.me", problem |-> ""]}
            /\ last' = Event("DOMContentLoaded", "", NoOutcome,
                             {Fetch("auth.me", "GET", "/auth/me",
                                    "Bearer " \o storage.authToken)})
       ELSE /\ popup' = [PopupClosed EXCEPT
                           !.phase = "ready",
                           !.section = checkAuth_section(FALSE, FALSE)]
            /\ popupNet' = {}
            /\ last' = Event("DOMContentLoaded", "", NoOutcome, {})
    /\ UNCHANGED <<storage, popupOther>>

\* mutant: a refused token stays in chrome.storage
CheckAuthResponse_KeepsStored(out) ==
    /\ program = "popup"
    /\ popup.phase = "checkAuth"
    /\ [call |-> "auth.me", problem |-> ""] \in popupNet
    /\ out \in Outcomes
    /\ IF Ok(out)
       THEN popup' = [popup EXCEPT !.phase = "ready",
                                   !.section = checkAuth_section(TRUE, TRUE)]
       ELSE popup' = [popup EXCEPT !.phase = "ready", !.authToken = Null,
                                   !.section = checkAuth_section(TRUE, FALSE)]
    /\ storage' = storage
    /\ popupNet' = {}
    /\ last' = Event("checkAuth.response", "", out, {})
    /\ UNCHANGED popupOther

\* checkAuth after its fetch, then initEventListeners
CheckAuthResponse(out) ==
    /\ program = "popup"
    /\ popup.phase = "checkAuth"
    /\ [call |-> "auth.me", problem |-> ""] \in popupNet
    /\ out \in Outcomes
    /\ IF Ok(out)
       THEN /\ popup' = [popup EXCEPT !.phase = "ready",
                                      !.section = checkAuth_section(TRUE, TRUE)]
            /\ storage' = storage
       ELSE /\ popup' = [popup EXCEPT !.phase = "ready", !.authToken = Null,
                                      !.section = checkAuth_section(TRUE, FALSE)]
            /\ storage' = [storage EXCEPT !.authToken = Null]
    /\ popupNet' = {}
    /\ last' = Event("checkAuth.response", "", out, {})
    /\ UNCHANGED popupOther

\* the popup window is closed: its document and its fetches are gone
PopupClose ==
    /\ program = "popup"
    /\ popup.phase # "closed"
    /\ popup' = PopupClosed
    /\ popupNet' = {}
    /\ last' = Event("unload", "", NoOutcome, {})
    /\ UNCHANGED <<storage, popupOther>>

\* typing in #problemInput
PopupType(text) ==
    /\ program = "popup"
    /\ popup.phase = "ready" /\ popup.section = "sos"
    /\ text # popup.problemInput
    /\ popup' = [popup EXCEPT !.problemInput = text]
    /\ last' = Event("problemInput", text, NoOutcome, {})
    /\ UNCHANGED <<storage, popupNet, popupOther>>

\* submitSOS up to its fetch, run with `text` in #problemInput
submitSOS(text, op) ==
    IF ~submitSOS_validate(text)
    THEN /\ popup' = [popup EXCEPT !.problemInput = text,
                                   !.toast = "Please describe your problem"]
         /\ popupNet' = popupNet
         /\ last' = Event(op, text, NoOutcome, {})
    ELSE /\ Cardinality(popupNet) < MaxInflight
         /\ popup' = [popup EXCEPT !.problemInput = text,
                                   !.submitted = Trim(text),
                                   !.section = showSection("loading")]
         /\ popupNet' = popupNet \cup {[call |-> "sos.quick", problem |-> Trim(text)]}
         /\ last' = Event(op, text, NoOutcome,
                          {Fetch("sos.quick", "POST", "/sos/quick", NoHeader)})

\* #sosBtn click, or Enter in #problemInput
PopupSubmit ==
    /\ program = "popup"
    /\ popup.phase = "ready" /\ popup.section = "sos"
    /\ submitSOS(popup.problemInput, "submitSOS")
    /\ UNCHANGED <<storage, popupOther>>

\* a .quick-card click: the card's problem is put in #problemInput, then submitSOS
PopupQuickCard ==
    /\ program = "popup"
    /\ popup.phase = "ready" /\ popup.section = "sos"
    /\ submitSOS(QuickCardProblem, "quick-card")
    /\ UNCHANGED <<storage, popupOther>>

\* submitSOS after its fetch: the rest of try, or catch
SubmitSOSResponse(f, out) ==
    /\ program = "popup"
    /\ f \in popupNet /\ f.call = "sos.quick"
    /\ out \in Outcomes
    /\ \E data \in (IF Ok(out) THEN QuickBodies(f.problem) ELSE {InvalidJSON}) :
          IF Ok(out) /\ data # InvalidJSON
          THEN popup' = [displayPlaybook(popup, data.playbook) EXCEPT
                           !.currentPlaybook = data.playbook,
                           !.section = showSection("result")]
          ELSE popup' = [popup EXCEPT
                           !.toast = "Failed to get help. Please try again.",
                           !.section = showSection("sos")]
    /\ popupNet' = popupNet \ {f}
    /\ last' = Event("submitSOS.response", f.problem, out, {})
    /\ UNCHANGED <<storage, popupOther>>

\* #newSosBtn click
PopupNewSos ==
    /\ program = "popup"
    /\ popup.phase = "ready" /\ popup.section = "result"
    /\ popup' = [popup EXCEPT !.problemInput = "", !.currentPlaybook = NoPlaybook,
                              !.section = showSection("sos")]
    /\ last' = Event("newSosBtn", "", NoOutcome, {})
    /\ UNCHANGED <<storage, popupNet, popupOther>>

\* #settingsBtn click (the button is in the popup's header)
PopupSettings ==
    /\ program = "popup"
    /\ popup.phase = "ready" /\ popup.section # "settings"
    /\ popup' = [popup EXCEPT !.section = showSection("settings")]
    /\ last' = Event("settingsBtn", "", NoOutcome, {})
    /\ UNCHANGED <<storage, popupNet, popupOther>>

\* #closeSettingsBtn click, and #saveSettingsBtn click (saveSettings)
PopupCloseSettings(save) ==
    /\ program = "popup"
    /\ popup.phase = "ready" /\ popup.section = "settings"
    /\ popup' = [popup EXCEPT !.section = showSection("sos"),
                              !.toast = IF save THEN "Settings saved!" ELSE @]
    /\ last' = Event(IF save THEN "saveSettings" ELSE "closeSettingsBtn", "",
                     NoOutcome, {})
    /\ UNCHANGED <<storage, popupNet, popupOther>>

\* #loginBtn click: handleLogin up to its fetch
PopupLogin(email, password) ==
    /\ program = "popup"
    /\ popup.phase = "ready"
    /\ IF ~handleLogin_validate(email, password)
       THEN /\ popup' = [popup EXCEPT !.toast = "Please enter email and password"]
            /\ popupNet' = popupNet
            /\ last' = Event("handleLogin", email \o "/" \o password, NoOutcome, {})
       ELSE /\ Cardinality(popupNet) < MaxInflight
            /\ popup' = popup
            /\ popupNet' = popupNet \cup {[call |-> "auth.login", problem |-> ""]}
            /\ last' = Event("handleLogin", email \o "/" \o password, NoOutcome,
                             {Fetch("auth.login", "POST", "/auth/login", NoHeader)})
    /\ UNCHANGED <<storage, popupOther>>

\* handleLogin after its fetch
PopupLoginResponse(f, out) ==
    /\ program = "popup"
    /\ f \in popupNet /\ f.call = "auth.login"
    /\ out \in Outcomes
    /\ IF Ok(out)
       THEN \E token \in Tokens :
               /\ popup' = [popup EXCEPT !.authToken = token,
                                         !.toast = "Logged in successfully!",
                                         !.section = showSection("sos")]
               /\ storage' = [storage EXCEPT !.authToken = token]
       ELSE /\ popup' = [popup EXCEPT
                           !.toast = "Login failed. Check your credentials."]
            /\ storage' = storage
    /\ popupNet' = popupNet \ {f}
    /\ last' = Event("handleLogin.response", "", out, {})
    /\ UNCHANGED popupOther

\* #logoutBtn click: handleLogout
PopupLogout ==
    /\ program = "popup"
    /\ popup.phase = "ready"
    /\ popup' = [popup EXCEPT !.authToken = Null, !.toast = "Logged out",
                              !.section = showSection("sos")]
    /\ storage' = [storage EXCEPT !.authToken = Null]
    /\ last' = Event("handleLogout", "", NoOutcome, {})
    /\ UNCHANGED <<popupNet, popupOther>>

\* #saveBtn click: savePlaybook
PopupSave ==
    /\ program = "popup"
    /\ popup.phase = "ready" /\ popup.section = "result"
    /\ popup' = [popup EXCEPT
                   !.toast = IF ~Truthy(popup.authToken)
                             THEN "Please login to save playbooks"
                             ELSE "Playbook saved to your history!"]
    /\ last' = Event("savePlaybook", "", NoOutcome, {})
    /\ UNCHANGED <<storage, popupNet, popupOther>>

\* showToast's timer removes the toast after 3 s
PopupToastTimeout ==
    /\ program = "popup"
    /\ popup.toast # ""
    /\ popup' = [popup EXCEPT !.toast = ""]
    /\ last' = Event("toast.timeout", "", NoOutcome, {})
    /\ UNCHANGED <<storage, popupNet, popupOther>>

NextPopup ==
    \/ PopupOpen
    \/ \E out \in Outcomes : CheckAuthResponse(out)
    \/ PopupClose
    \/ \E text \in InputTexts : PopupType(text)
    \/ PopupSubmit
    \/ PopupQuickCard
    \/ \E f \in popupNet, out \in Outcomes : SubmitSOSResponse(f, out)
    \/ PopupNewSos
    \/ PopupSettings
    \/ \E save \in BOOLEAN : PopupCloseSettings(save)
    \/ \E form \in LoginForms : PopupLogin(form[1], form[2])
    \/ \E f \in popupNet, out \in Outcomes : PopupLoginResponse(f, out)
    \/ PopupLogout
    \/ PopupSave
    \/ PopupToastTimeout

----------------------------------------------------------------------------
(* Chrome extension: background service worker and content script *)

NoOverlay == [none |-> TRUE]
\* no message has reached the content script's onMessage listener yet
NoMessage == [none |-> TRUE]

\* page.overlays: the elements of the document with id 'sahayak-overlay', in
\* document order; page.message: the message the listener received last
pageInit ==
    /\ bg = {}
    /\ page = [overlays |-> <<>>, toast |-> "", message |-> NoMessage]

\* the overlay document.getElementById('sahayak-overlay') finds
Overlay == IF page.overlays = <<>> THEN NoOverlay ELSE Head(page.overlays)

pageOther == <<program, webVars, storage, popup, popupNet, backendVars>>

\* texts a user can have selected when the context menu opens
Selections == {"Students don't understand fractions", " "}

\* the listener's test of the clicked menu item
onClicked_accepts(menuItemId, selectionText) ==
    menuItemId = "sahayak-sos" /\ Truthy(selectionText)

\* content.js createPlaybookOverlay without the removal of the existing overlay
createPlaybookOverlay_KeepsExisting(overlays, playbook) ==
    IF playbook = NoPlaybook THEN overlays
    ELSE Append(overlays, [title |-> OrElse(playbook.title, DefaultTitle),
                           about |-> playbook.about])

\* content.js createPlaybookOverlay: the document's overlays afterwards.  The
\* element getElementById finds is removed first; reading playbook.title of an
\* undefined playbook throws before the new element is appended to the body.
createPlaybookOverlay(overlays, playbook) ==
    LET removed == IF overlays = <<>> THEN <<>> ELSE Tail(overlays)
    IN  IF playbook = NoPlaybook THEN removed
        ELSE Append(removed, [title |-> OrElse(playbook.title, DefaultTitle),
                              about |-> playbook.about])

\* content.js onMessage listener: only SHOW_PLAYBOOK messages build an overlay
onMessage(pg, message) ==
    IF message.type = "SHOW_PLAYBOOK"
    THEN [pg EXCEPT !.overlays = createPlaybookOverlay(pg.overlays, message.playbook),
                    !.message = message]
    ELSE [pg EXCEPT !.message = message]

\* chrome.contextMenus.onClicked listener up to its fetch
ContextClick(selectionText) ==
    /\ program = "page"
    /\ onClicked_accepts("sahayak-sos", selectionText)
    /\ Cardinality(bg) < MaxInflight
    /\ bg' = bg \cup {[call |-> "sos.quick", problem |-> selectionText]}
    /\ last' = Event("contextMenus.onClicked", selectionText, NoOutcome,
                     {Fetch("sos.quick", "POST", "/sos/quick", NoHeader)})
    /\ UNCHANGED <<page, pageOther>>

\* the listener after its fetch: on response.ok the playbook is sent to the
\* tab's content script, whose onMessage listener builds the overlay; any
\* other outcome ends the listener (catch: console.error)
ContextResponse(f, out) ==
    /\ program = "page"
    /\ f \in bg
    /\ out \in Outcomes
    /\ \E data \in (IF Ok(out) THEN QuickBodies(f.problem) ELSE {InvalidJSON}) :
          page' = IF Ok(out) /\ data # InvalidJSON
                  THEN onMessage(page, [type |-> "SHOW_PLAYBOOK",
                                        playbook |-> data.playbook])
                  ELSE page
    /\ bg' = bg \ {f}
    /\ last' = Event("contextMenus.response", f.problem, out, {})
    /\ UNCHANGED pageOther

\* the sequence s without its i-th element
RemoveAt(s, i) == SubSeq(s, 1, i - 1) \o SubSeq(s, i + 1, Len(s))

\* clicks on the i-th overlay: its #sahayak-close, its backdrop, the modal
\* inside it; the listeners remove the overlay they were created with
OverlayClick(i, target) ==
    /\ program = "page"
    /\ i \in 1..Len(page.overlays)
    /\ page' = IF target \in {"sahayak-close", "overlay"}
               THEN [page EXCEPT !.overlays = RemoveAt(page.overlays, i)]
               ELSE page
    /\ last' = Event("overlay.click", target, NoOutcome, {})
    /\ UNCHANGED <<bg, pageOther>>

\* #sahayak-copy click: copyPlaybookText, whose toast follows a granted
\* clipboard write
OverlayCopy(granted) ==
    /\ program = "page"
    /\ page.overlays # <<>>
    /\ page' = IF granted THEN [page EXCEPT !.toast = "Copied to clipboard!"]
               ELSE page
    /\ last' = Event("sahayak-copy", "", NoOutcome, {})
    /\ UNCHANGED <<bg, pageOther>>

\* content.js showToast's timer
PageToastTimeout ==
    /\ program = "page"
    /\ page.toast # ""
    /\ page' = [page EXCEPT !.toast = ""]
    /\ last' = Event("toast.timeout", "", NoOutcome, {})
    /\ UNCHANGED <<bg, pageOther>>

NextPage ==
    \/ \E text \in Selections : ContextClick(text)
    \/ \E f \in bg, out \in Outcomes : ContextResponse(f, out)
    \/ \E i \in 1..Len(page.overlays), target \in {"sahayak-close", "overlay", "modal"} :
          OverlayClick(i, target)
    \/ \E granted \in BOOLEAN : OverlayCopy(granted)
    \/ PageToastTimeout

----------------------------------------------------------------------------
(* Backend: the document store's Request and SharedSolution records *)

\* Request records created in a run
MaxRequests == 2
\* votes cast in a run
MaxVotes == 3

SolutionIds == {"s1", "s2"}

backendInit ==
    /\ requests = <<>>
    /\ solutions = [id \in SolutionIds |-> [tally |-> 0, cast |-> 0]]
    /\ votes = [id \in SolutionIds |-> [seen \in 0..MaxVotes |-> 0]]

backendOther == <<program, webVars, extVars>>

\* mutant: a failed Request is started again
StatusAfter_Retry(status, step) ==
    CASE status \in {"pending", "failed"} /\ step = "start" -> "processing"
      [] status = "processing" /\ step = "resolve" -> "resolved"
      [] status = "processing" /\ step = "fail" -> "failed"
      [] OTHER -> status

\* the status a Request has after a step of its handling; a step that does not
\* apply leaves it as it is
StatusAfter(status, step) ==
    CASE status = "pending" /\ step = "start" -> "processing"
      [] status = "processing" /\ step = "resolve" -> "resolved"
      [] status = "processing" /\ step = "fail" -> "failed"
      [] OTHER -> status

\* a submission creates the Request, pending and without playbook
RequestSubmit ==
    /\ program = "backend"
    /\ Len(requests) < MaxRequests
    /\ requests' = Append(requests, [status |-> "pending", playbook |-> FALSE])
    /\ last' = Event("request.create", "", NoOutcome, {})
    /\ UNCHANGED <<solutions, votes, backendOther>>

\* a step of the handling of Request id: start, resolve (the playbook is
\* attached) or fail
RequestStep(id, step) ==
    /\ program = "backend"
    /\ id \in DOMAIN requests
    /\ StatusAfter(requests[id].status, step) # requests[id].status
    /\ requests' = [requests EXCEPT
                      ![id] = [status |-> StatusAfter(@.status, step),
                               playbook |-> (step = "resolve")]]
    /\ last' = Event("request." \o step, "", NoOutcome, {})
    /\ UNCHANGED <<solutions, votes, backendOther>>

\* mutant: the handler writes the tally it saw, plus one
TallyAfterVote_ReadModifyWrite(stored, seen) == seen + 1

\* the tally a vote handler writes: the store increments the counter in place,
\* whatever tally the handler saw when the request arrived
TallyAfterVote(stored, seen) == stored + 1

\* vote handlers in progress and votes written, over all solutions
VotesInProgress ==
    LET RECURSIVE Sum(_, _)
        Sum(id, seen) ==
            IF seen < 0 THEN 0 ELSE votes[id][seen] + Sum(id, seen - 1)
    IN  Sum("s1", MaxVotes) + Sum("s2", MaxVotes)
VotesCast == solutions["s1"].cast + solutions["s2"].cast

\* POST /knowledge/library/{id}/vote arrives: a handler starts, and sees the
\* tally of that moment
VoteArrive(id) ==
    /\ program = "backend"
    /\ id \in SolutionIds
    /\ VotesCast + VotesInProgress < MaxVotes
    /\ votes' = [votes EXCEPT ![id][solutions[id].tally] = @ + 1]
    /\ last' = Event("vote.arrive", id, NoOutcome, {})
    /\ UNCHANGED <<requests, solutions, backendOther>>

\* the write of a handler that saw tally `seen` reaches the store, which
\* serialises writes
VoteWrite(id, seen) ==
    /\ program = "backend"
    /\ id \in SolutionIds
    /\ seen \in 0..MaxVotes
    /\ votes[id][seen] > 0
    /\ solutions' = [solutions EXCEPT
                       ![id] = [tally |-> TallyAfterVote(@.tally, seen),
                                cast |-> @.cast + 1]]
    /\ votes' = [votes EXCEPT ![id][seen] = @ - 1]
    /\ last' = Event("vote.write", id, NoOutcome, {})
    /\ UNCHANGED <<requests, backendOther>>

NextBackend ==
    \/ RequestSubmit
    \/ \E id \in DOMAIN requests, step \in {"start", "resolve", "fail"} :
          RequestStep(id, step)
    \/ \E id \in SolutionIds : VoteArrive(id)
    \/ \E id \in SolutionIds, seen \in 0..MaxVotes : VoteWrite(id, seen)

webInit(recs) ==
    /\ lsToken = NoItem
    /\ lsUser = NoItem
    /\ location = "/"
    /\ inflight = {}
    /\ isAuthenticated = FALSE
    /\ user = NullUser
    /\ appLoading = FALSE
    /\ screen = "Landing"
    /\ login = LoginInitial
    /\ register = RegisterInitial
    /\ sos = SOSInitial
    /\ crp = CRPUnmounted
    /\ history = HistoryUnmounted
    /\ records = recs

\* a run is a run of one program; the state of the others is idle
Init ==
    /\ last = Event("init", "", NoOutcome, {})
    /\ backendInit
    /\ pageInit
    /\ \/ /\ program = "web"
          /\ \E recs \in RecordSets : webInit(recs)
          /\ popupInit(Null)
       \/ /\ program = "popup"
          /\ webInit({})
          /\ \E stored \in Tokens \cup {Null} : popupInit(stored)
       \/ /\ program \in {"page", "backend"}
          /\ webInit({})
          /\ popupInit(Null)

NextWeb ==
    \/ \E path \in Paths : WebLoad(path)
    \/ \E path \in Paths : WebNavigate(path)
    \/ Logout
    \/ LoginSubmit
    \/ \E r \in inflight : Response401(r)
    \/ \E r \in inflight, out \in Outcomes : ResponseUnseen(r, out)
    \/ \E r \in inflight, out \in Outcomes : LoginResponse(r, out)
    \/ \E field \in {"password", "confirmPassword"}, value \in Passwords :
          RegisterEdit(field, value)
    \/ RegisterSubmit
    \/ RegisterBack
    \/ \E r \in inflight, out \in Outcomes : RegisterResponse(r, out)
    \/ \E text \in InputTexts : SosEdit(text)
    \/ SosSubmit
    \/ \E r \in inflight, out \in Outcomes : SosResponse(r, out)
    \/ SosReset
    \/ \E days \in TimeRanges : CrpSelect(days)
    \/ \E r \in inflight, out \in Outcomes : CrpResponse(r, out)
    \/ \E r \in inflight, out \in Outcomes : HistoryResponse(r, out)
    \/ \E id \in SOSIds : HistoryClick(id)
    \/ \E r \in inflight, out \in Outcomes : HistoryDetailResponse(r, out)
    \/ HistoryCloseModal

Next == NextWeb \/ NextPopup \/ NextPage \/ NextBackend

Spec == Init /\ [][Next]_vars

----------------------------------------------------------------------------
(* Properties *)

ProtectedPaths == {"/dashboard", "/dashboard/legacy", "/history"}
ProtectedPages == {"TeacherDashboard", "CRPDashboard", "DIETDashboard", "Dashboard",
                   "History"}

\* C1: every SOS submission whose handling has ended shows its playbook or an
\* error: on the web SOS page, in the popup, and after a context-menu click,
\* whatever the HTTP outcome was.
C1_Web ==
    /\ last.op = "SOSPage.response" =>
          ~sos.loading /\ (sos.result # NoResult \/ sos.error # "")
    /\ last.op = "response" /\ last.arg = "sosAPI.quick" =>
          screen = "SOSPage" /\ (sos.result # NoResult \/ sos.error # "")
C1_Popup ==
    last.op = "submitSOS.response" =>
        \/ /\ popup.section = "result"
           /\ popup.currentPlaybook # NoPlaybook
           /\ popup.currentPlaybook.about = last.arg
        \/ popup.section = "result"
           /\ popup.playbookContent = "<p>No playbook available</p>"
        \/ popup.toast = "Failed to get help. Please try again."
C1_ContextMenu ==
    last.op = "contextMenus.response" =>
        \/ Overlay # NoOverlay /\ Overlay.about = last.arg
        \/ page.toast \notin {"", "Copied to clipboard!"}
C1_NoSilentLoss == C1_Web /\ C1_Popup /\ C1_ContextMenu

\* C2: after a response with status 401 to any request of the web API client,
\* localStorage holds neither token nor user, the browser is at /login, and
\* the reloaded app is unauthenticated and shows the login form.
C2_AuthFailureRedirects ==
    last.outcome = HttpResponse(401) /\ program = "web" =>
        /\ lsToken = NoItem
        /\ lsUser = NoItem
        /\ location = "/login"
        /\ ~isAuthenticated
        /\ user = NullUser
        /\ screen = "Login"

\* C2 witness: a 401 arrived for a request sent with a token of a logged-in user
C2_Witness ==
    /\ last.outcome = HttpResponse(401)
    /\ last.op = "response"
    /\ last.arg = "dashboardAPI.getCRP"
    /\ location = "/login"

\* C3: /dashboard, /dashboard/legacy and /history show their page only while
\* isAuthenticated is true; while it is false each of them navigates to /login.
C3_ProtectedRoutes ==
    /\ screen \in ProtectedPages => isAuthenticated
    /\ location \in ProtectedPaths => isAuthenticated /\ screen \in ProtectedPages
    /\ \A path \in ProtectedPaths :
          IF isAuthenticated
          THEN /\ RouteElement(path, isAuthenticated, user).kind = "page"
               /\ RouteElement(path, isAuthenticated, user).page \in ProtectedPages
          ELSE RouteElement(path, isAuthenticated, user) = Navigate("/login")
    /\ last.op \in {"load", "navigate"} /\ last.arg \in ProtectedPaths =>
          IF isAuthenticated
          THEN location = last.arg /\ screen \in ProtectedPages
          ELSE location = "/login" /\ screen = "Login"

\* C3 witness: an unauthenticated visitor asked for /history and is at /login
C3_Witness ==
    /\ last.op = "load" /\ last.arg = "/history"
    /\ ~isAuthenticated
    /\ location = "/login" /\ screen = "Login"

\* C4: SmartDashboard renders the CRP dashboard for a role that lower-cases to
\* crp, the DIET dashboard for one that lower-cases to diet, and the Teacher
\* dashboard for every other user value, a missing or null role included.
C4_Expected(usr) ==
    IF usr = NullUser THEN "TeacherDashboard"
    ELSE IF usr.role \in {"crp", "CRP"} THEN "CRPDashboard"
    ELSE IF usr.role \in {"diet", "Diet"} THEN "DIETDashboard"
    ELSE "TeacherDashboard"
C4_RoleDispatch ==
    /\ \A usr \in UserValues : SmartDashboard(usr) = C4_Expected(usr)
    /\ location = "/dashboard" => screen = C4_Expected(user)
    /\ screen \in {"TeacherDashboard", "CRPDashboard", "DIETDashboard"} =>
          location = "/dashboard" /\ screen = C4_Expected(user)

\* C4 witness: a user whose role is written CRP is shown the CRP dashboard
C4_Witness ==
    /\ isAuthenticated /\ user = [role |-> "CRP"]
    /\ location = "/dashboard" /\ screen = "CRPDashboard"

\* C5: a Request is created pending, its status only moves pending ->
\* processing -> resolved | failed, and a resolved or failed Request never
\* changes again (no retry of a failed one).
C5_StatusProgression ==
    [][\A id \in DOMAIN requests' :
          IF id \in DOMAIN requests
          THEN \/ requests'[id] = requests[id]
               \/ <<requests[id].status, requests'[id].status>> \in
                     {<<"pending", "processing">>, <<"processing", "resolved">>,
                      <<"processing", "failed">>}
          ELSE requests'[id].status = "pending"]_vars

\* C5 witness: one Request has failed and another has been resolved
C5_Witness ==
    /\ Len(requests) = 2
    /\ requests[1].status = "failed"
    /\ requests[2].status = "resolved" /\ requests[2].playbook

\* C6: whenever the CRP dashboard shows its numbers, Total SOS is the number of
\* Request records that fall in the selected window of 7, 14 or 30 days.
C6_TotalMatchesWindow ==
    screen = "CRPDashboard" /\ ~crp.loading =>
        CRPTotalShown = CountRequests(records, crp.timeRange)

\* C7: under every interleaving of vote handlers a solution's tally never
\* decreases and counts every vote written.
C7_VotesMonotonic ==
    [][\A id \in SolutionIds :
          /\ solutions'[id].tally >= solutions[id].tally
          /\ solutions'[id].tally = solutions'[id].cast]_vars

\* C7 witness: two votes are counted while a handler that saw tally 0 is
\* still in progress
C7_Witness ==
    /\ solutions["s1"].tally = 2
    /\ votes["s1"][0] > 0
    /\ last.op = "vote.write"

\* C8: a request config the web API client puts on the wire carries
\* Authorization: Bearer <token> for the token localStorage holds at that
\* moment, and no Authorization header when it holds none.
C8_BearerToken ==
    program = "web" =>
        \A config \in last.sent :
            config.auth = IF lsToken \in Tokens THEN "Bearer " \o lsToken ELSE NoHeader

\* C8 witness: a request is sent with the token of a second login
C8_Witness ==
    /\ lsToken = "jwt2"
    /\ last.op = "CRPDashboard.setTimeRange"
    /\ \E config \in last.sent : config.auth = "Bearer jwt2"

\* C9: /sos renders the SOS page whether or not the user is authenticated, and
\* the popup's start-up ends with the SOS section visible whether or not a
\* valid token was stored.
C9_Web ==
    /\ location = "/sos" <=> screen = "SOSPage"
    /\ \A auth \in BOOLEAN : RouteElement("/sos", auth, user) = Page("SOSPage")
    /\ last.op \in {"load", "navigate"} /\ last.arg = "/sos" => screen = "SOSPage"
C9_Popup ==
    last.op \in {"DOMContentLoaded", "checkAuth.response"}
        /\ popup.phase = "ready" => popup.section = "sos"
C9_QuickSOSNeedsNoAuth == C9_Web /\ C9_Popup

\* C9 witness: the stored token was refused and the popup shows the SOS section
C9_Witness ==
    /\ last.op = "checkAuth.response" /\ last.outcome = HttpResponse(401)
    /\ popup.phase = "ready" /\ popup.section = "sos"
    /\ popup.authToken = Null

\* C9, the web half: an unauthenticated visitor and a logged-in user at /sos
C9_WitnessWeb ==
    /\ location = "/sos" /\ screen = "SOSPage" /\ isAuthenticated

\* C10: a submission with a required field missing shows its message, sends no
\* request, and leaves the visible section, the loading flag, the result or
\* playbook and the token as they were: on the SOS page, in the popup's
\* submitSOS and in the popup's handleLogin.
C10_Web ==
    last'.op = "SOSPage.handleSubmit" /\ sos.input \in {"", " "} =>
        /\ sos'.error = "Please describe your classroom problem"
        /\ last'.sent = {} /\ inflight' = inflight
        /\ sos'.loading = sos.loading /\ sos'.result = sos.result
        /\ screen' = screen /\ lsToken' = lsToken
C10_PopupSubmit ==
    last'.op = "submitSOS" /\ popup.problemInput \in {"", " "} =>
        /\ popup'.toast = "Please describe your problem"
        /\ last'.sent = {} /\ popupNet' = popupNet
        /\ popup'.section = popup.section
        /\ popup'.currentPlaybook = popup.currentPlaybook
        /\ popup'.authToken = popup.authToken /\ storage' = storage
C10_PopupLogin ==
    last'.op = "handleLogin" /\ last'.arg \in {"/pass123", " /pass123", "a@b.in/"} =>
        /\ popup'.toast = "Please enter email and password"
        /\ last'.sent = {} /\ popupNet' = popupNet
        /\ popup'.section = popup.section
        /\ popup'.currentPlaybook = popup.currentPlaybook
        /\ popup'.authToken = popup.authToken /\ storage' = storage
C10_ValidationRejects == [][C10_Web /\ C10_PopupSubmit /\ C10_PopupLogin]_vars

\* C10 witness: a whitespace-only problem was submitted in the popup while a
\* playbook was loading
C10_Witness ==
    /\ last.op = "submitSOS" /\ last.arg = " "
    /\ popup.toast = "Please describe your problem"
    /\ popup.section = "sos"
    /\ popupNet # {}

\* C11: a submission handler puts exactly one request on the wire when it
\* accepts the submission and none when it rejects it, only submission handlers
\* send a POST, and a handler that was given a failed outcome sends nothing.
C11_SubmitOps ==
    {"SOSPage.handleSubmit", "Login.handleSubmit", "Register.handleSubmit",
     "submitSOS", "quick-card", "handleLogin", "contextMenus.onClicked"}
C11_Accepted ==
    CASE last'.op = "SOSPage.handleSubmit" -> Trim(sos.input) # ""
      [] last'.op = "Register.handleSubmit" -> register.step = 2
      [] last'.op = "submitSOS" -> Trim(popup.problemInput) # ""
      [] last'.op = "handleLogin" -> last'.arg = "a@b.in/pass123"
      [] OTHER -> TRUE
C11_NoRetries ==
    [][/\ last'.op \in C11_SubmitOps =>
             Cardinality(last'.sent) = IF C11_Accepted THEN 1 ELSE 0
       /\ \A config \in last'.sent :
             config.method = "POST" => last'.op \in C11_SubmitOps
       /\ last'.outcome # NoOutcome /\ ~Ok(last'.outcome) => last'.sent = {}]_vars

\* C11 witness: the SOS page's request failed with status 500; its handler
\* showed the error and no request is on the wire or awaited
C11_Witness ==
    /\ last.op = "SOSPage.response" /\ last.outcome = HttpResponse(500)
    /\ last.sent = {} /\ inflight = {}
    /\ sos.error # "" /\ ~sos.loading

\* C12: the dashboards' loads (legacy, teacher, CRP) send GET requests only,
\* and a step that starts such a load inside the document or handles its
\* response, the response not being a 401, leaves the persisted records,
\* localStorage's token and user, and App's isAuthenticated and user unchanged.
C12_DashboardCalls ==
    {"dashboardAPI.getTeacher", "dashboardAPI.getCRP", "knowledgeAPI.getMySolutions",
     "knowledgeAPI.getMentorInsights", "TeacherDashboard.loadDashboard"}
C12_Dashboards == {"TeacherDashboard", "CRPDashboard", "Dashboard"}
C12_LoadStep ==
    \/ last'.op = "navigate" /\ screen' \in C12_Dashboards
    \/ last'.op = "CRPDashboard.setTimeRange"
    \/ /\ last'.op \in {"response", "response.orphan", "CRPDashboard.response"}
       /\ last'.arg \in C12_DashboardCalls \/ last'.op = "CRPDashboard.response"
       /\ last'.outcome # HttpResponse(401)
C12_ReadOnly ==
    [][/\ \A config \in last'.sent :
             config.call \in C12_DashboardCalls => config.method = "GET"
       /\ screen' \in C12_Dashboards /\ screen' # screen =>
             /\ last'.sent # {}
             /\ \A config \in last'.sent : config.method = "GET"
       /\ C12_LoadStep =>
             /\ records' = records
             /\ lsToken' = lsToken /\ lsUser' = lsUser
             /\ isAuthenticated' = isAuthenticated /\ user' = user]_vars

\* C12 witness: the Teacher dashboard's load was answered with status 500 and
\* the session is as it was
C12_Witness ==
    /\ last.op = "response" /\ last.arg = "TeacherDashboard.loadDashboard"
    /\ last.outcome = HttpResponse(500)
    /\ screen = "TeacherDashboard" /\ isAuthenticated /\ lsToken \in Tokens

\* C13: a GET /dashboard/crp is put on the wire, and is awaited by a mounted
\* page, only while isAuthenticated is true and the user's role lower-cases to
\* crp; no teacher, unknown role or unauthenticated visitor causes it.
C13_IsCRP == isAuthenticated /\ user # NullUser /\ user.role \in {"crp", "CRP"}
C14_AIFailures == {"unreachable", "timeout", "unconfigured"}
C14_FallbackSubstituted ==
    last.op = "SOSPage.response" /\ last.arg \in C14_AIFailures =>
        /\ sos.result = FallbackBody
        /\ SOSErrorShown = ""
        /\ ~sos.loading
        /\ screen = "SOSPage"

\* C14 witness: the model call timed out and the SOS page shows the fallback
C14_Witness ==
    /\ last.op = "SOSPage.response" /\ last.arg = "timeout"
    /\ last.outcome = HttpResponse(200)
    /\ sos.result = FallbackBody /\ SOSErrorShown = ""

\* C15: the leaderboard table shows at most 10 rows, in non-increasing order
\* of score; the row of rank i holds the i-th highest score of the data; and
\* rows with equal solutions_shared and helpful_votes have equal scores.
C15_LeaderboardRanking ==
    screen = "CRPDashboard" /\ ~crp.loading =>
        LET rows == CRPLeaderboardShown
            all == IF crp.data = NoData THEN <<>> ELSE crp.data.teacher_leaderboard
        IN  /\ Len(rows) <= 10
            /\ Len(rows) = IF Len(all) < 10 THEN Len(all) ELSE 10
            /\ \A i \in DOMAIN rows :
                  /\ rows[i].rank = i
                  /\ Cardinality({k \in DOMAIN all :
                                     all[k].score > rows[i].teacher.score}) < i
                  /\ Cardinality({k \in DOMAIN all :
                                     all[k].score >= rows[i].teacher.score}) >= i
            /\ \A i, j \in DOMAIN rows :
                  /\ i < j => rows[i].teacher.score >= rows[j].teacher.score
                  /\ rows[i].teacher.solutions_shared = rows[j].teacher.solutions_shared
                        /\ rows[i].teacher.helpful_votes = rows[j].teacher.helpful_votes
                     => rows[i].teacher.score = rows[j].teacher.score

\* C15 witness: the data holds more teachers than the table has rows, some of
\* them with equal scores
C15_Witness ==
    /\ screen = "CRPDashboard" /\ ~crp.loading /\ crp.data # NoData
    /\ Len(crp.data.teacher_leaderboard) = MaxTeachers
    /\ Len(CRPLeaderboardShown) = 10
    /\ CRPLeaderboardShown[1].teacher.score > CRPLeaderboardShown[10].teacher.score
    /\ \E i \in 1..9 : CRPLeaderboardShown[i].teacher.score
                            = CRPLeaderboardShown[i + 1].teacher.score

\* C16: for every response that carries a playbook, its title missing or
\* empty included, the title shown on the SOS page, in the popup's result
\* section and in the page overlay is a non-empty string (the playbook's own
\* title, else the default); detected_subject is a subject or null, and the SOS
\* page shows its pill exactly when it is a subject.
C16_NonEmpty(title) == title \notin {"", Null, Undefined}
C16_Web ==
    screen = "SOSPage" /\ sos.result # NoResult =>
        /\ C16_NonEmpty(SOSTitleShown)
        /\ SOSTitleShown = IF C16_NonEmpty(sos.result.title) THEN sos.result.title
                           ELSE "Teaching Rescue Playbook"
        /\ sos.result.detected_subject \in {"Mathematics", Null}
        /\ SOSSubjectShown = IF sos.result.detected_subject = Null THEN NoPill
                             ELSE [pill |-> sos.result.detected_subject]
C16_Popup ==
    popup.section = "result" /\ popup.currentPlaybook # NoPlaybook =>
        /\ C16_NonEmpty(popup.resultTitle)
        /\ popup.resultTitle = IF C16_NonEmpty(popup.currentPlaybook.title)
                               THEN popup.currentPlaybook.title
                               ELSE "Teaching Rescue Playbook"
C16_Overlay ==
    /\ Overlay # NoOverlay => C16_NonEmpty(Overlay.title)
    /\ last.op = "contextMenus.response" /\ Overlay # NoOverlay =>
          Overlay.title \in {"Fraction strips", "Teaching Rescue Playbook"}
C18_Declared ==
    {"/", "/login", "/register", "/sos", "/dashboard", "/dashboard/legacy", "/history"}
C18_RouteRedirects ==
    program = "web" /\ screen # "Crashed" =>
        /\ screen \in {"Login", "Register"} => ~isAuthenticated
        /\ \A path \in {"/login", "/register"} :
              RouteElement(path, TRUE, user) = Navigate("/dashboard")
        /\ \A path \in Paths \ C18_Declared :
              RouteElement(path, isAuthenticated, user) = Navigate("/")
        /\ location \in C18_Declared
        /\ last.op \in {"load", "navigate"} =>
              /\ last.arg \in {"/login", "/register"} /\ isAuthenticated =>
                    location = "/dashboard" /\ screen = SmartDashboard(user)
              /\ last.arg \notin C18_Declared =>
                    location = "/" /\ screen = "Landing"
        /\ last.op = "handleLogout" =>
              ~isAuthenticated /\ location = "/login" /\ screen = "Login"

\* C18 witness: a logged-in user asked for /register and is at /dashboard
C18_Witness ==
    /\ last.op = "load" /\ last.arg = "/register"
    /\ isAuthenticated /\ location = "/dashboard"
    /\ screen \in {"TeacherDashboard", "CRPDashboard", "DIETDashboard"}

\* C18, logout: a user who was at /history has logged out and is at /login
C18_WitnessLogout ==
    /\ last.op = "handleLogout" /\ location = "/login" /\ screen = "Login"

\* C19: when checkAuth has completed the SOS section is the visible one; a
\* stored token whose /auth/me check was answered non-ok or threw is null in
\* memory and gone from chrome.storage; one whose check was answered ok is
\* kept, in memory and in chrome.storage.
C19_CheckAuth ==
    [][/\ last'.op = "DOMContentLoaded" /\ popup'.phase = "ready" =>
             /\ popup'.section = "sos"
             /\ popup'.authToken = Null /\ storage' = storage
       /\ last'.op = "checkAuth.response" =>
             /\ popup'.phase = "ready" /\ popup'.section = "sos"
             /\ popup.authToken \in Tokens /\ storage.authToken = popup.authToken
             /\ IF last'.outcome = HttpResponse(200)
                THEN popup'.authToken = popup.authToken /\ storage' = storage
                ELSE popup'.authToken = Null /\ storage'.authToken = Null]_vars

\* C19 witness: the check of a stored token threw (network error); the token
\* is gone and the SOS section is shown
C19_Witness ==
    /\ last.op = "checkAuth.response" /\ last.outcome = NetworkError
    /\ popup.authToken = Null /\ storage.authToken = Null
    /\ popup.section = "sos"

\* C19, the ok case: the stored token passed its check and is kept
C19_WitnessKept ==
    /\ last.op = "checkAuth.response" /\ last.outcome = HttpResponse(200)
    /\ popup.authToken = "jwt2" /\ storage.authToken = "jwt2"
    /\ popup.section = "sos"

\* C20: savePlaybook with a token present saves the current playbook (a
\* request carrying it is sent, or it is written to chrome.storage) and says
\* so; with no token it asks the user to log in, sends and stores nothing and
\* changes nothing but the toast.
C20_Saved == last'.sent # {} \/ storage' # storage
C20_SavePlaybook ==
    [][last'.op = "savePlaybook" =>
          IF popup.authToken \in Tokens
          THEN /\ popup'.toast = "Playbook saved to your history!"
               /\ C20_Saved
          ELSE /\ popup'.toast = "Please login to save playbooks"
               /\ ~C20_Saved
               /\ popupNet' = popupNet
               /\ popup' = [popup EXCEPT !.toast = popup'.toast]]_vars

\* C20, without a token: the step changes the toast only
C20_NoTokenUnchanged ==
    [][last'.op = "savePlaybook" /\ popup.authToken \notin Tokens =>
          /\ popup'.toast = "Please login to save playbooks"
          /\ ~C20_Saved
          /\ popupNet' = popupNet
          /\ popup' = [popup EXCEPT !.toast = popup'.toast]]_vars

\* the overlay createPlaybookOverlay builds for a playbook
C21_OverlayOf(playbook) ==
    [title |-> OrElse(playbook.title, DefaultTitle), about |-> playbook.about]

\* the document holds at most one overlay, and an overlay in the document is
\* the one built from the last SHOW_PLAYBOOK message
C21_OneFreshOverlay ==
    /\ Len(page.overlays) <= 1
    /\ page.overlays # <<>> =>
          /\ page.message # NoMessage
          /\ page.message.type = "SHOW_PLAYBOOK"
          /\ page.message.playbook # NoPlaybook
          /\ page.overlays = <<C21_OverlayOf(page.message.playbook)>>

\* a click inside the modal leaves the page as it is; the close button and
\* the backdrop remove the overlay
C21_Clicks ==
    [][last'.op = "overlay.click" =>
          IF last'.arg = "modal" THEN page' = page /\ page'.overlays # <<>>
          ELSE page'.overlays = <<>>]_vars

\* C21: after any sequence of SHOW_PLAYBOOK messages and close actions the
\* page holds at most one element with id 'sahayak-overlay', which shows the
\* playbook of the most recent SHOW_PLAYBOOK message; a click inside the modal
\* does not remove it
C21_OverlayUnique == []C21_OneFreshOverlay /\ C21_Clicks

\* a SHOW_PLAYBOOK message has arrived after an earlier overlay was shown
\* (the toast of its Copy button is still on the page) and its overlay is the
\* only one
C21_Witness ==
    /\ last.op = "contextMenus.response"
    /\ page.toast = "Copied to clipboard!"
    /\ page.message # NoMessage
    /\ page.message.playbook # NoPlaybook
    /\ page.message.playbook.about = " "
    /\ page.message.playbook.title = "Fraction strips"
    /\ page.overlays = <<[title |-> "Fraction strips", about |-> " "]>>

\* a click inside the modal has happened while the overlay was shown
C21_WitnessModal ==
    /\ last.op = "overlay.click" /\ last.arg = "modal"
    /\ page.overlays # <<>>


\* while the result section is visible, the playbook held and displayed is
\* the answer to the problem submitted last
C22_Fresh ==
    popup.section = "result" /\ popup.currentPlaybook # NoPlaybook =>
        /\ popup.currentPlaybook.about = popup.submitted
        /\ popup.resultTitle = OrElse(popup.currentPlaybook.title, DefaultTitle)

\* a response that finds the popup on another section than the loading one
\* leaves that section in place
C22_NoLateReplace ==
    [][last'.op = "submitSOS.response" /\ popup.section # "loading" =>
          popup'.section = popup.section]_vars

\* C22: for every interleaving of user actions and response arrivals, a visible
\* result section shows the response to the problem submitted last, and a late
\* response never replaces the section the user has since navigated to
C22_ResultFresh == []C22_Fresh /\ C22_NoLateReplace


\* once every detail response has arrived, a detail modal on the screen shows
\* the entry clicked last
C23_ShowsLastClicked ==
    screen = "History" /\ DetailsPending = {} /\ history.selectedSOS # NullSOS =>
        history.selectedSOS.id = history.clicked

\* a failed getById leaves selectedSOS as it was
C23_FailureKeeps ==
    [][last'.op = "History.detail" /\ ~Ok(last'.outcome) =>
          history'.selectedSOS = history.selectedSOS]_vars

\* C23: when several history entries are clicked before any detail response
\* arrives, the detail modal finally shows the entry clicked last, for every
\* arrival order of the responses; a failed getById leaves selectedSOS unchanged
C23_DetailFresh == []C23_ShowsLastClicked /\ C23_FailureKeeps


\* a change of timeRange sends one getCRP request, for the new value
C24_ReloadOnce ==
    [][last'.op = "CRPDashboard.setTimeRange" =>
          /\ crp'.timeRange # crp.timeRange
          /\ crp'.loading
          /\ last'.sent =
                {RequestInterceptor(dashboardAPI_getCRP(crp'.timeRange), lsToken)}
          /\ inflight' \ inflight = {Pending(dashboardAPI_getCRP(crp'.timeRange))}]_vars

\* while the dashboard is not loading, the data it displays was returned for
\* the time range now selected
C24_DataForRange ==
    screen = "CRPDashboard" /\ ~crp.loading /\ crp.data # NoData =>
        crp.data.days = crp.timeRange

\* C24: every change of timeRange triggers exactly one reload with the new
\* value, and whenever loading is false the displayed data is the response for
\* the selected timeRange, also after a reload that failed or returned no data
C24_WindowConsistent == []C24_DataForRange /\ C24_ReloadOnce


\* authAPI.register is sent only from step 2, with matching passwords
C25_RegisterFromStep2 ==
    [][Pending(authAPI_register) \in inflight' \ inflight =>
          /\ last'.op = "Register.handleSubmit"
          /\ register.step = 2
          /\ register.password = register.confirmPassword]_vars

\* step 1 submitted with differing passwords: the wizard stays at step 1,
\* shows the error and sends nothing
C25_MismatchRejected ==
    [][/\ last'.op = "Register.handleSubmit"
       /\ register.step = 1
       /\ register.password # register.confirmPassword
       => /\ register'.step = 1
          /\ register'.error = "Passwords do not match"
          /\ last'.sent = {}
          /\ inflight' = inflight]_vars

\* step 2 is only ever shown with matching passwords
C25_Step2Matches ==
    screen = "Register" /\ register.step = 2 =>
        register.password = register.confirmPassword

\* C25: authAPI.register is called only from step 2 and only with password
\* equal to confirmPassword; step 1 submitted with differing passwords keeps
\* step 1, sets 'Passwords do not match' and sends no request, for any
\* sequence of Continue, Back and field edits
C25_RegistrationWizard ==
    []C25_Step2Matches /\ C25_RegisterFromStep2 /\ C25_MismatchRejected

\* step 1 was submitted with differing passwords and was rejected
C25_Witness ==
    /\ last.op = "Register.handleSubmit" /\ last.arg = "step 1"
    /\ register.step = 1
    /\ register.password = "pw1" /\ register.confirmPassword = "pw2"
    /\ register.error = "Passwords do not match"

\* the registration was sent from step 2 with matching passwords
C25_WitnessSent ==
    /\ last.op = "Register.handleSubmit" /\ last.arg = "step 2"
    /\ register.loading /\ register.step = 2
    /\ register.password = "pw1" /\ register.confirmPassword = "pw1"
    /\ Pending(authAPI_register) \in inflight


====
